---------------------------- MODULE Spec2Model ----------------------------
(***************************************************************************)
(* A model of main.py: great-circle distances between named places.       *)
(*                                                                         *)
(* A float is a binary64 number, held as its sign, an exponent e and seven *)
(* digits w of base 2^14: the number is w[1].w[2]...w[7] times Base^e,     *)
(* with 53 significant bits.  Sums, differences and products of floats,    *)
(* their quotients by whole numbers and their square roots are rounded to  *)
(* nearest, ties to even, as IEEE 754 arithmetic rounds them.  The library *)
(* functions cos and asin are computed to all seven digits; the C library  *)
(* the interpreter is built on does not round them correctly in every      *)
(* case, its error is a little above half a unit in the last place.  So    *)
(* cos and asin are sets of floats: the float nearest to the exact value,  *)
(* and the float on its other side too when the exact value lies within    *)
(* 1/UlpBand of a unit of the point half-way between the two.  A sort of a *)
(* data frame, which the code asks for without naming a stable kind, is    *)
(* the set of the ascending arrangements of the rows.  Data frames are     *)
(* records with their columns, their index and their rows; a row is a      *)
(* function from column names to values.                                   *)
(***************************************************************************)
EXTENDS Integers, Sequences, FiniteSets, TLC

VARIABLES
    pc,            \* where the run is: start, create, print, done, gc_call, gc_done
    argv,          \* sys.argv: the script name, then the arguments (sequences of characters)
    places_df,     \* the frame of places main() holds
    places_in,     \* places_df as it was when create_distances_df was called
    list_of_dicts, \* the records create_distances_df built, before the sort
    distances_df,  \* the frame of records main() holds
    records_in,    \* distances_df as it was when print_results was called
    stdout,        \* what was printed, one entry per print() call
    calls,         \* the functions main() has called, in order
    exc,           \* the exception that ended the run, or "none"
    exit_status,   \* the interpreter's exit status once the run is over, -1 before
    gc_in,         \* the arguments of a direct call to great_circle_distance
    gc_out         \* what that call did

vars == <<pc, argv, places_df, places_in, list_of_dicts, distances_df,
          records_in, stdout, calls, exc, exit_status, gc_in, gc_out>>

---------------------------------------------------------------------------
(* Bounds of the model.                                                    *)

\* The most places a run loads or generates.
MaxN == 3

\* The most command-line arguments.
MaxArgc == 2

\* The most records handed to print_results when it is called on its own.
MaxRecs == 3

---------------------------------------------------------------------------
(* Wide numbers.                                                           *)
(*                                                                         *)
(* A wide number <<w1, ..., w7>> is w1 + w2/Base + ... + w7/Base^6 with    *)
(* 0 <= w2, ..., w7 < Base; a negative one has a negative whole part w1.   *)

\* The base of the digits, 2^14: a product of two digits, and a sum of
\* seven such products, is below 2^31.
Base == 16384

Scale == Base * Base

\* The global R: the average radius of the Earth in kilometres.
R == 6371

Abs(x) == IF x < 0 THEN -x ELSE x

\* The k with 2^k <= n < 2^(k+1), for a whole number n, 1 <= n < Base^2.
Log2(n) == CHOOSE k \in 0..27 : 2 ^ k <= n /\ n < 2 ^ (k + 1)

ZeroW == <<0, 0, 0, 0, 0, 0, 0>>

One == <<1, 0, 0, 0, 0, 0, 0>>

HalfW == <<0, 8192, 0, 0, 0, 0, 0>>

Carry(a, b, c, d, e, f, g) ==
    LET \* Seven columns as seven digits: each digit carries into the one before
        \* it, the last digit first.
        Carry2(a1, b1, c1, d1, e1, f1, g1) == <<a1 + b1 \div Base, b1 % Base, c1, d1, e1, f1, g1>>
        Carry3(a1, b1, c1, d1, e1, f1, g1) == Carry2(a1, b1 + c1 \div Base, c1 % Base, d1, e1, f1, g1)
        Carry4(a1, b1, c1, d1, e1, f1, g1) == Carry3(a1, b1, c1 + d1 \div Base, d1 % Base, e1, f1, g1)
        Carry5(a1, b1, c1, d1, e1, f1, g1) == Carry4(a1, b1, c1, d1 + e1 \div Base, e1 % Base, f1, g1)
        Carry6(a1, b1, c1, d1, e1, f1, g1) == Carry5(a1, b1, c1, d1, e1 + f1 \div Base, f1 % Base, g1)
    IN  Carry6(a, b, c, d, e, f + g \div Base, g % Base)

WAdd(x, y) ==
    IF x = ZeroW THEN y
    ELSE IF y = ZeroW THEN x
    ELSE Carry(x[1] + y[1], x[2] + y[2], x[3] + y[3], x[4] + y[4],
               x[5] + y[5], x[6] + y[6], x[7] + y[7])

WSub(x, y) ==
    IF y = ZeroW THEN x
    ELSE Carry(x[1] - y[1], x[2] - y[2], x[3] - y[3], x[4] - y[4],
               x[5] - y[5], x[6] - y[6], x[7] - y[7])

WNeg(x) ==
    IF x = ZeroW THEN x
    ELSE Carry(-x[1], -x[2], -x[3], -x[4], -x[5], -x[6], -x[7])

\* x times the whole number k.
WTimes(x, k) ==
    IF x = ZeroW THEN x
    ELSE Carry(x[1] * k, x[2] * k, x[3] * k, x[4] * k, x[5] * k, x[6] * k,
               x[7] * k)

\* The product of x, y >= 0, rounded in the last digit.
WMul(x, y) ==
    IF x = ZeroW \/ y = ZeroW THEN ZeroW
    ELSE
    Carry(x[1] * y[1],
          x[1] * y[2] + x[2] * y[1],
          x[1] * y[3] + x[2] * y[2] + x[3] * y[1],
          x[1] * y[4] + x[2] * y[3] + x[3] * y[2] + x[4] * y[1],
          x[1] * y[5] + x[2] * y[4] + x[3] * y[3] + x[4] * y[2] + x[5] * y[1],
          x[1] * y[6] + x[2] * y[5] + x[3] * y[4] + x[4] * y[3] + x[5] * y[2] + x[6] * y[1],
          x[1] * y[7] + x[2] * y[6] + x[3] * y[5] + x[4] * y[4] + x[5] * y[3] + x[6] * y[2] + x[7] * y[1]
              + ((x[2] * y[7] + x[3] * y[6] + x[4] * y[5] + x[5] * y[4] + x[6] * y[3] + x[7] * y[2]) + Base \div 2) \div Base)

\* x times y for x of either sign and y >= 0.
SMul(x, y) == IF x[1] < 0 THEN WNeg(WMul(WNeg(x), y)) ELSE WMul(x, y)

WDivRem(x, k) ==
    LET \* The seven digits of x/k and, last, the remainder: long division by a
        \* whole number k, 0 < k < 2^17, of x >= 0.
        Div7(k1, a, b, c, d, e, f, g, r) ==
            <<a, b, c, d, e, f, (r * Base + g) \div k1, (r * Base + g) % k1>>
        Div6(k1, a, b, c, d, e, f, g, r) ==
            Div7(k1, a, b, c, d, e, (r * Base + f) \div k1, g, (r * Base + f) % k1)
        Div5(k1, a, b, c, d, e, f, g, r) ==
            Div6(k1, a, b, c, d, (r * Base + e) \div k1, f, g, (r * Base + e) % k1)
        Div4(k1, a, b, c, d, e, f, g, r) ==
            Div5(k1, a, b, c, (r * Base + d) \div k1, e, f, g, (r * Base + d) % k1)
        Div3(k1, a, b, c, d, e, f, g, r) ==
            Div4(k1, a, b, (r * Base + c) \div k1, d, e, f, g, (r * Base + c) % k1)
        Div2(k1, a, b, c, d, e, f, g, r) ==
            Div3(k1, a, (r * Base + b) \div k1, c, d, e, f, g, (r * Base + b) % k1)
    IN  IF x = ZeroW THEN <<0, 0, 0, 0, 0, 0, 0, 0>>
        ELSE Div2(k, x[1] \div k, x[2], x[3], x[4], x[5], x[6], x[7], x[1] % k)

Head7(t) == <<t[1], t[2], t[3], t[4], t[5], t[6], t[7]>>

\* x/k cut to seven digits.
WDiv(x, k) == Head7(WDivRem(x, k))

\* x < y for two numbers of as many digits: the first digit in which they
\* differ is less in x.
Below(x, y) ==
    \E i \in 1..Len(x) : x[i] < y[i] /\ \A j \in 1..(i - 1) : x[j] = y[j]

WLeq(x, y) == x = y \/ Below(x, y)

\* Digit i of a sequence of digits, 0 outside it.
Digit(s, i) == IF i >= 1 /\ i <= Len(s) THEN s[i] ELSE 0

\* The eight digits of a wide number w >= 0 whose whole part is below
\* Base^2: the whole part split in two.
Expand(w) == <<w[1] \div Base, w[1] % Base, w[2], w[3], w[4], w[5], w[6], w[7]>>

\* w / Base^n cut to seven digits, for w >= 0 and n >= 0.
Shr(w, n) ==
    LET ShiftedDown(E, n1) ==
            <<Digit(E, 2 - n1), Digit(E, 3 - n1), Digit(E, 4 - n1), Digit(E, 5 - n1),
              Digit(E, 6 - n1), Digit(E, 7 - n1), Digit(E, 8 - n1)>>
    IN  IF n = 0 THEN w ELSE ShiftedDown(Expand(w), n)

\* w * Base, the first digit joining the whole part.
Shl1(w) == <<w[1] * Base + w[2], w[3], w[4], w[5], w[6], w[7], 0>>

\* How many digits of d are 0 before the first that is not.
LeadingZeros(d) ==
    IF \A i \in 1..Len(d) : d[i] = 0 THEN Len(d)
    ELSE (CHOOSE i \in 1..Len(d) :
              d[i] # 0 /\ \A j \in 1..(i - 1) : d[j] = 0) - 1

\* The seven digits of d after its first k.
Window(d, k) ==
    <<Digit(d, k + 1), Digit(d, k + 2), Digit(d, k + 3), Digit(d, k + 4),
      Digit(d, k + 5), Digit(d, k + 6), Digit(d, k + 7)>>

---------------------------------------------------------------------------
(* Floats: binary64 numbers.                                               *)

\* The float (-1)^neg * w * Base^e.  Its whole part w[1] is in 1..Base-1
\* and w holds 53 significant bits, or w is zero.
Float(neg, e, w) == [neg |-> neg, e |-> e, w |-> w]

Zero == Float(FALSE, 0, ZeroW)

IsZero(x) == x.w = ZeroW

\* The library functions of math are within 1/2 + 1/UlpBand units in the
\* last place of the exact value (the errors measured for cos and asin stay
\* below 0.52 units).
UlpBand == 16

\* w * Base^e rounded to 53 bits, for a whole part in 1..Base-1; sticky
\* tells that the number is a little more than w.  In the mode "nearest"
\* the number is rounded to nearest, ties to even.  In the modes "down" and
\* "up" a number within 1/UlpBand of a unit of the point half-way between
\* two floats is rounded down, or up, and any other number to nearest.
Round53(neg, e, w, sticky, mode) ==
    LET \* The digit, counted from 0 at the whole part, that holds the last of the
        \* 53 bits of a wide number with the whole part w1 in 1..Base-1, and the
        \* weight of that bit in its digit.
        LastDigit(w1) == (65 - Log2(w1)) \div 14
        LastBit(w1) == 2 ^ (14 * LastDigit(w1) + Log2(w1) - 52)
        \* Whether the bits of w below the bit of weight u in digit j, followed by
        \* something more if sticky, round up: above the half, or at the half with
        \* an odd last bit.
        RoundsUp(w1, sticky1, j, u) ==
            LET t == (w1[j + 1] % u) * Base + w1[j + 2]
                h == u * (Base \div 2)
            IN  IF mode # "nearest" /\ Abs(t - h) <= (u * Base) \div UlpBand
                THEN mode = "up"
                ELSE \/ t > h
                     \/ /\ t = h
                        /\ \/ sticky1
                           \/ \E i \in (j + 3)..7 : w1[i] # 0
                           \/ (w1[j + 1] \div u) % 2 = 1
        \* w with digit j replaced by v and no digit after it.
        Cut(w1, j, v) ==
            IF j = 3 THEN Carry(w1[1], w1[2], w1[3], v, 0, 0, 0)
            ELSE Carry(w1[1], w1[2], w1[3], w1[4], v, 0, 0)
        \* The float of the rounded digits c: rounding up may have reached Base.
        Settled(neg1, e1, c) ==
            IF c[1] = Base THEN Float(neg1, e1 + 1, One) ELSE Float(neg1, e1, c)
        RoundAt(neg1, e1, w1, sticky1, j, u) ==
            Settled(neg1, e1,
                    Cut(w1, j, ((w1[j + 1] \div u)
                                  + (IF RoundsUp(w1, sticky1, j, u) THEN 1 ELSE 0)) * u))
    IN  RoundAt(neg, e, w, sticky, LastDigit(w[1]), LastBit(w[1]))

RECURSIVE NormTo(_, _, _, _, _)
\* (-1)^neg * w * Base^e as a float, rounded in the given mode, for a wide
\* number w >= 0 with a whole part below Base^2.
NormTo(neg, e, w, sticky, mode) ==
    IF w = ZeroW THEN Zero
    ELSE IF w[1] >= Base
    THEN Round53(neg, e + 1, Head7(Expand(w)), sticky \/ w[7] # 0, mode)
    ELSE IF w[1] = 0
    THEN NormTo(neg, e - 1, <<w[2], w[3], w[4], w[5], w[6], w[7], 0>>, sticky, mode)
    ELSE Round53(neg, e, w, sticky, mode)

\* The float nearest to (-1)^neg * w * Base^e: the result of an arithmetic
\* operation.
Norm(neg, e, w, sticky) == NormTo(neg, e, w, sticky, "nearest")

\* The floats a library function may return for the exact value
\* (-1)^neg * w * Base^e.
Library(neg, e, w) ==
    {NormTo(neg, e, w, FALSE, mode) : mode \in {"nearest", "down", "up"}}

\* Nine columns as nine digits.
Carry9(c) ==
    Carry(c[1], c[2], c[3], c[4], c[5], c[6],
          c[7] + (c[8] + c[9] \div Base) \div Base)
        \o <<(c[8] + c[9] \div Base) % Base, c[9] % Base>>

RECURSIVE Folded(_, _, _)
\* The float nearest to (-1)^neg * p * Base^e for nine digits p of either
\* sign.
Folded(neg, e, p) ==
    LET Negated9(p1) == <<-p1[1], -p1[2], -p1[3], -p1[4], -p1[5], -p1[6], -p1[7], -p1[8], -p1[9]>>
    IN  IF p[1] < 0 THEN Folded(~neg, e, Carry9(Negated9(p)))
        ELSE Norm(neg, e, Head7(p), p[8] # 0 \/ p[9] # 0)

\* The float nearest to the number of nine columns.
Exact(neg, e, c) == Folded(neg, e, Carry9(c))

\* The columns of the exact product of two numbers of five digits.
Columns5(x, y) ==
    <<x[1] * y[1],
      x[1] * y[2] + x[2] * y[1],
      x[1] * y[3] + x[2] * y[2] + x[3] * y[1],
      x[1] * y[4] + x[2] * y[3] + x[3] * y[2] + x[4] * y[1],
      x[1] * y[5] + x[2] * y[4] + x[3] * y[3] + x[4] * y[2] + x[5] * y[1],
      x[2] * y[5] + x[3] * y[4] + x[4] * y[3] + x[5] * y[2],
      x[3] * y[5] + x[4] * y[4] + x[5] * y[3],
      x[4] * y[5] + x[5] * y[4],
      x[5] * y[5]>>

\* -x, abs(x).
Neg(x) == IF IsZero(x) THEN x ELSE Float(~x.neg, x.e, x.w)

abs(x) == Float(FALSE, x.e, x.w)

\* x * y.
Times(x, y) ==
    IF IsZero(x) \/ IsZero(y) THEN Zero
    ELSE Exact(x.neg # y.neg, x.e + y.e, Columns5(x.w, y.w))

\* x + y for x.e >= y.e: a y five digits down and more does not reach the
\* bits that decide the rounding.
AddOrdered(x, y) ==
    LET \* Digit k of w moved d digits down.
        Place(w, d, k) == IF k - d >= 1 /\ k - d <= 5 THEN w[k - d] ELSE 0
        AddColumn(x1, y1, k) ==
            (IF k <= 5 THEN x1.w[k] ELSE 0)
                + (IF x1.neg = y1.neg THEN 1 ELSE -1) * Place(y1.w, x1.e - y1.e, k)
    IN  IF x.e - y.e >= 5 THEN x
        ELSE Exact(x.neg, x.e,
                   <<AddColumn(x, y, 1), AddColumn(x, y, 2), AddColumn(x, y, 3),
                     AddColumn(x, y, 4), AddColumn(x, y, 5), AddColumn(x, y, 6),
                     AddColumn(x, y, 7), AddColumn(x, y, 8), AddColumn(x, y, 9)>>)

\* x + y.
Add(x, y) ==
    IF IsZero(y) THEN x
    ELSE IF IsZero(x) THEN y
    ELSE IF x.e < y.e THEN AddOrdered(y, x)
    ELSE AddOrdered(x, y)

\* x - y.
Sub(x, y) == Add(x, Neg(y))

\* x / 2.
Halved(x) == Norm(x.neg, x.e, WDiv(x.w, 2), FALSE)

\* x / k for a whole number k, 0 < k < 2^17.
DivSmall(x, k) ==
    LET Quotient(neg, e, t) == Norm(neg, e, Head7(t), t[8] # 0)
    IN  Quotient(x.neg, x.e, WDivRem(x.w, k))

\* The float of a whole number n, |n| < Base^2.
OfInt(n) == Norm(n < 0, 0, <<Abs(n), 0, 0, 0, 0, 0, 0>>, FALSE)

\* x <= y.
Leq(x, y) ==
    LET \* |x| <= |y|.
        MagLeq(x1, y1) ==
            IF IsZero(x1) THEN TRUE
            ELSE IF IsZero(y1) THEN FALSE
            ELSE IF x1.e # y1.e THEN x1.e < y1.e
            ELSE WLeq(x1.w, y1.w)
    IN  IF x.neg # y.neg THEN x.neg
        ELSE IF x.neg THEN MagLeq(y, x)
        ELSE MagLeq(x, y)

\* |x| as a wide number, for |x| < Base, cut after the seventh digit.
ToWide(x) == Shr(x.w, -x.e)

\* 0.5 and 1.0.
Half == Float(FALSE, -1, <<8192, 0, 0, 0, 0, 0, 0>>)

Unity == Float(FALSE, 0, One)

\* math.pi, the binary64 nearest to pi: 3.141592653589793.
pi == Float(FALSE, 0, <<3, 2319, 13992, 8726, 8960, 0, 0>>)

\* p = pi/180 of line 29.
P == DivSmall(pi, 180)

---------------------------------------------------------------------------
(* math.cos                                                                *)

\* pi/2 to ten digits, pi/2 to the nearest seventh digit, and 2/pi.
HalfPi10 == <<1, 9351, 15188, 4363, 4484, 6754, 6348, 5212, 440, 3688>>

HalfPiW == <<1, 9351, 15188, 4363, 4484, 6754, 6348>>

TwoOverPi == <<0, 10430, 6198, 14649, 1045, 2687, 629>>

\* One factor of the nested Taylor series: 1 - y2*t/k.
Step(y2, t, k) == WSub(One, WDiv(WMul(y2, t), k))

RECURSIVE Factors(_, _, _)
\* The nested series with its next n factors, or with all that are left:
\* the first half of them, then the others.
Factors(y2, st, n) ==
    LET \* The nested series st.t, whose next factor is that of st.k, with that
        \* factor.
        Factor(y21, st1) == [t |-> Step(y21, st1.t, st1.k * (st1.k + 1)), k |-> st1.k - 2]
    IN  IF st.k < 1 THEN st
        ELSE IF n = 1 THEN Factor(y2, st)
        ELSE Factors(y2, Factors(y2, st, n \div 2), n - n \div 2)

\* 1 - y2/(k(k+1)) * (1 - y2/((k+2)(k+3)) * (1 - ...)) up to the factor
\* with 24 or 25: from k = 1 the series of cos y, from k = 2 that of
\* (sin y)/y, for y2 = y^2 and 0 <= y <= pi/4, to all seven digits.
Series(y2, k) == Factors(y2, [t |-> One, k |-> 22 + k], 12).t

\* cos y for a wide y, 0 <= y <= pi/4.
CosW(y) == Series(WMul(y, y), 1)

\* sin(yn / Base^k) * Base^k, for k >= 1 and a wide yn: the sine of a small
\* number to as many significant digits as that of a large one.
SinScaled(yn, k) == WMul(yn, Series(Shr(WMul(yn, yn), 2 * k), 2))

\* sin y for a wide y, 0 <= y < 1.
SinW(y) == Shr(SinScaled(Shl1(y), 1), 1)

\* The whole number nearest to x / (pi/2).
Quadrant(x) == WAdd(WMul(x, TwoOverPi), HalfW)[1]

Carry10(c) ==
    LET \* Ten columns as ten digits: the last three first, then the seven before.
        TailCarry(a, b, c1) ==
            <<(a + (b + c1 \div Base) \div Base) \div Base,
              (a + (b + c1 \div Base) \div Base) % Base,
              (b + c1 \div Base) % Base,
              c1 % Base>>
        Joined(c1, t) ==
            Carry(c1[1], c1[2], c1[3], c1[4], c1[5], c1[6], c1[7] + t[1]) \o <<t[2], t[3], t[4]>>
    IN  Joined(c, TailCarry(c[8], c[9], c[10]))

\* x - m*pi/2 for a wide x: its sign and the ten digits of its magnitude.
Offset(x, m) ==
    LET Negated10(d) ==
            <<-d[1], -d[2], -d[3], -d[4], -d[5], -d[6], -d[7], -d[8], -d[9], -d[10]>>
        OffsetColumn(x1, m1, i) == Digit(x1, i) - m1 * HalfPi10[i]
        Signed10(d) ==
            IF d[1] < 0 THEN [sign |-> -1, d |-> Carry10(Negated10(d))]
            ELSE [sign |-> 1, d |-> d]
    IN  Signed10(Carry10(<<OffsetColumn(x, m, 1), OffsetColumn(x, m, 2),
                           OffsetColumn(x, m, 3), OffsetColumn(x, m, 4),
                           OffsetColumn(x, m, 5), OffsetColumn(x, m, 6),
                           OffsetColumn(x, m, 7), OffsetColumn(x, m, 8),
                           OffsetColumn(x, m, 9), OffsetColumn(x, m, 10)>>))

\* math.cos(x) for a float x, |x| < Base: the floats it may return.
cos(x) ==
    LET \* cos(m*pi/2 + o) for odd m: -sin o if m is 1 more than a multiple of 4,
        \* sin o if it is 3 more; k digits of o are 0 before the first that is not.
        SinOfOffset(m, o, k) ==
            IF k >= 10 THEN {Zero}
            ELSE Library(IF m % 4 = 1 THEN o.sign > 0 ELSE o.sign < 0, -k,
                         SinScaled(Window(o.d, k), k))
        \* cos(m*pi/2 + o): cos o or -cos o for even m.
        CosOfOffset(m, o) ==
            IF m % 2 = 0 THEN Library(m % 4 = 2, 0, CosW(Head7(o.d)))
            ELSE SinOfOffset(m, o, LeadingZeros(o.d))
        CosInQuadrant(x1, m) == CosOfOffset(m, Offset(x1, m))
    IN  CosInQuadrant(ToWide(x), Quadrant(ToWide(x)))

---------------------------------------------------------------------------
(* First approximations, in units of 1/Scale.                              *)

\* n/d rounded to the nearest integer, ties to even (d > 0).
RoundDiv(n, d) ==
    LET q == n \div d
        r == n % d
    IN  IF 2 * r < d THEN q
        ELSE IF 2 * r > d THEN q + 1
        ELSE IF q % 2 = 0 THEN q ELSE q + 1

\* The exact product of x, y >= 0, as hi * Scale + lo with 0 <= lo < Scale.
MulFull(x, y) ==
    LET xh == x \div Base
        xl == x % Base
        yh == y \div Base
        yl == y % Base
        m == xh * yl + xl * yh
        t == (m % Base) * Base + xl * yl
    IN  [hi |-> xh * yh + (m \div Base) + (t \div Scale), lo |-> t % Scale]

\* p.hi + p.lo/Scale rounded to nearest, ties to even.
Nearest(p) ==
    IF 2 * p.lo < Scale THEN p.hi
    ELSE IF 2 * p.lo > Scale THEN p.hi + 1
    ELSE IF p.hi % 2 = 0 THEN p.hi ELSE p.hi + 1

\* The product of two values >= 0 in units of 1/Scale, to the unit.
Mul(x, y) == Nearest(MulFull(x, y))

\* The quotient q and the remainder r of x * Base divided by y, for
\* 0 <= x < y <= Scale: by three bits at a time, so that x * Base is never
\* formed.
MulDiv(x, y) ==
    LET \* A quotient and a remainder for the divisor y brought down by some bits:
        \* the quotient and the remainder of the dividend with as many bits more.
        Brought(h, bits, y1) ==
            [q |-> h.q * 2 ^ bits + (h.r * 2 ^ bits) \div y1, r |-> (h.r * 2 ^ bits) % y1]
    IN  Brought(Brought(Brought(Brought(Brought([q |-> 0, r |-> x], 3, y),
                                        3, y), 3, y), 3, y), 2, y)

\* x/y to two digits, for 0 <= x <= y.
Ratio(x, y) ==
    LET RatioDigits(h, y1) == <<0, h.q, MulDiv(h.r, y1).q, 0, 0, 0, 0>>
    IN  IF x = y THEN One ELSE RatioDigits(MulDiv(x, y), y)

RECURSIVE RootNarrowed(_, _, _)
\* The numbers iv.lo .. iv.hi halved n times, or until one is left: the
\* first half of the halvings, then the others.
RootNarrowed(A, iv, n) ==
    LET SquareAtMost(p, A1) == p.hi < A1 \/ (p.hi = A1 /\ p.lo = 0)
        \* The half of the numbers iv.lo .. iv.hi that holds the greatest m with
        \* m*m <= A*Scale, told by the square of the number m in the middle.
        RootHalf(A1, iv1, m) ==
            IF SquareAtMost(MulFull(m, m), A1) THEN [lo |-> m, hi |-> iv1.hi]
            ELSE [lo |-> iv1.lo, hi |-> m - 1]
        RootHalved(A1, iv1) == RootHalf(A1, iv1, (iv1.lo + iv1.hi + 1) \div 2)
    IN  IF iv.lo >= iv.hi THEN iv
        ELSE IF n = 1 THEN RootHalved(A, iv)
        ELSE RootNarrowed(A, RootNarrowed(A, iv, n \div 2), n - n \div 2)

\* The greatest m in lo..hi with m*m <= A*Scale: the root of A units, in
\* units.  Of at most 2^28 numbers 28 halvings leave one.
IsqrtUnits(A, lo, hi) == RootNarrowed(A, [lo |-> lo, hi |-> hi], 28).lo

\* The first three digits of a wide number as units, and back.
Units(w) == w[1] * Scale + w[2] * Base + w[3]

OfUnits(n) == <<n \div Scale, (n % Scale) \div Base, n % Base, 0, 0, 0, 0>>

\* The sine of y units for 0 <= y <= pi/4 to the unit, by its Taylor
\* polynomial up to the term in y^11.
SinStep(y2, t, k) ==
    IF t = 0 THEN Scale ELSE Scale - RoundDiv(Mul(y2, t), k)

SinPoly(y, y2) ==
    Mul(y, SinStep(y2, SinStep(y2, SinStep(y2, SinStep(y2,
               SinStep(y2, Scale, 110), 72), 42), 20), 6))

SinKernel(y) == SinPoly(y, Mul(y, y))

\* pi/4 in units.
QuarterPi == 210828714

RECURSIVE AsinNarrowed(_, _, _)
\* The angles iv.lo .. iv.hi halved n times, or until one is left.
AsinNarrowed(s, iv, n) ==
    LET \* The half of the angles iv.lo .. iv.hi that holds the least angle whose
        \* sine is at least s, told by the sine of the angle m in the middle.
        AsinHalf(s1, iv1, m) ==
            IF SinKernel(m) >= s1 THEN [lo |-> iv1.lo, hi |-> m]
            ELSE [lo |-> m + 1, hi |-> iv1.hi]
        AsinHalved(s1, iv1) == AsinHalf(s1, iv1, (iv1.lo + iv1.hi) \div 2)
    IN  IF iv.lo >= iv.hi THEN iv
        ELSE IF n = 1 THEN AsinHalved(s, iv)
        ELSE AsinNarrowed(s, AsinNarrowed(s, iv, n \div 2), n - n \div 2)

\* The least angle in lo..hi whose sine is at least s, to the unit.
AsinSearch(s, lo, hi) == AsinNarrowed(s, [lo |-> lo, hi |-> hi], 28).lo

---------------------------------------------------------------------------
(* math.sqrt                                                               *)

\* The root of a wide a in [1/4, 1), to all seven digits.
RootWide(a) ==
    LET \* One step towards the root r of a with the slope g, about 1/(2r): the
        \* error shrinks by the error of g.
        RootStep(a1, r, g) == WAdd(r, SMul(WSub(a1, WMul(r, r)), g))
        RootRefined(a1, r0) ==
            RootStep(a1, RootStep(a1, OfUnits(r0), Ratio(Scale \div 2, r0)),
                     Ratio(Scale \div 2, r0))
    IN  RootRefined(a, IsqrtUnits(Units(a), Scale \div 4, Scale - 1))

\* The root of a wide a in [1/4, 1): the float nearest to it, or all its
\* seven digits.
RootNorm(a, rounded) ==
    LET \* Whether h*h < a, exactly, for an h of five digits.
        SquareBelow(h, a1) == Below(Carry9(Columns5(h, h)), a1 \o <<0, 0>>)
        \* Of the float q just below the root of a and the next float, the one
        \* nearer to the root: the next one if the number half-way between them is
        \* below the root.
        NearerRoot(a1, q) ==
            IF SquareBelow(WAdd(q, <<0, 0, 0, 0, 4, 0, 0>>), a1)
            THEN WAdd(q, <<0, 0, 0, 0, 8, 0, 0>>)
            ELSE q
        \* r cut to 53 bits, for r in [1/2, 1).
        Cut53(r) == <<r[1], r[2], r[3], r[4], r[5] - (r[5] % 8), 0, 0>>
    IN  IF rounded THEN NearerRoot(a, Cut53(RootWide(a))) ELSE RootWide(a)

\* The root of a wide v with a whole part in 1..Base^2-1: v / 4^j lies in
\* [1/4, 1) for j = Log2(v[1]) \div 2 + 1.
RootBig(v, rounded) ==
    LET \* v / 4^j.
        ByPower(v1, j) ==
            IF 2 * j >= 14 THEN WDiv(Shr(v1, 1), 2 ^ (2 * j - 14)) ELSE WDiv(v1, 2 ^ (2 * j))
        RootScaled(v1, j, rounded1) == WTimes(RootNorm(ByPower(v1, j), rounded1), 2 ^ j)
    IN  RootScaled(v, Log2(v[1]) \div 2 + 1, rounded)

\* The root of a float x > 0, as w * Base^e.
Root(x, rounded) ==
    IF x.e % 2 = 0 THEN [e |-> x.e \div 2, w |-> RootBig(x.w, rounded)]
    ELSE [e |-> (x.e - 1) \div 2, w |-> RootBig(Shl1(x.w), rounded)]

\* math.sqrt(x) for a float x >= 0, correctly rounded.
sqrt(x) ==
    LET OfRoot(r) == Norm(FALSE, r.e, r.w, FALSE)
    IN  IF IsZero(x) THEN Zero ELSE OfRoot(Root(x, TRUE))

---------------------------------------------------------------------------
(* math.asin                                                               *)

AsinFrom(t, tu) ==
    LET \* One step towards the angle th with sine t with the slope g, about
        \* 1/cos(th).
        AsinStep(t1, th, g) == WAdd(th, SMul(WSub(t1, SinW(th)), g))
        AsinRefined(t1, th, g) == AsinStep(t1, AsinStep(t1, th, g), g)
        \* 1/c0 for c0 units, Scale/2 < c0 <= Scale.
        Slope(c0) == WAdd(One, Ratio(Scale - c0, c0))
    IN  AsinRefined(t, OfUnits(AsinSearch(tu, 0, QuarterPi)),
                    Slope(IsqrtUnits(Scale - Mul(tu, tu), Scale \div 2, Scale)))

\* asin t for a wide t, 0 <= t <= 1/2, to all seven digits.
AsinCore(t) == IF t = ZeroW THEN ZeroW ELSE AsinFrom(t, Units(t))

\* asin x for a float x below 1/Base: x * (1 + u/6 + 3u^2/40) for u = x^2.
AsinSmall(x) ==
    LET SmallFactor(u) == WAdd(One, WAdd(WDiv(u, 6), WDiv(WTimes(WMul(u, u), 3), 40)))
    IN  Library(FALSE, x.e,
                WMul(x.w, SmallFactor(IF -2 * x.e <= 8 THEN Shr(WMul(x.w, x.w), -2 * x.e)
                                      ELSE ZeroW)))

\* asin t for a wide t in (1/2, 1] with u = (1 - t)/2:
\* pi/2 - 2 * asin(sqrt(u)); asin 1 is the float nearest to pi/2.
AsinNearOne(u) ==
    LET RootAsWide(r) == Shr(r.w, -r.e)
    IN  IF u = ZeroW THEN {Norm(FALSE, 0, HalfPiW, FALSE)}
        ELSE Library(FALSE, 0,
                     WSub(HalfPiW,
                          WTimes(AsinCore(RootAsWide(
                                     Root(Float(FALSE, -LeadingZeros(u),
                                                Window(u, LeadingZeros(u))), FALSE))),
                                 2)))

AsinOfWide(t) ==
    IF WLeq(t, HalfW) THEN Library(FALSE, 0, AsinCore(t))
    ELSE AsinNearOne(WDiv(WSub(One, t), 2))

\* asin x for a float x, 0 <= x <= 1.
AsinOfMagnitude(x) ==
    IF IsZero(x) THEN {Zero}
    ELSE IF x.e <= -2 THEN AsinSmall(x)
    ELSE AsinOfWide(ToWide(x))

\* math.asin(x) for a float x, -1 <= x <= 1: the floats it may return.
asin(x) ==
    IF x.neg THEN {Neg(y) : y \in AsinOfMagnitude(abs(x))}
    ELSE AsinOfMagnitude(x)

---------------------------------------------------------------------------
(* great_circle_distance                                                   *)

\* The four calls of math.cos of lines 30-31 and what each may return.
\* The library is a function: two calls with arguments of the same
\* magnitude return the same value.
Cosines(lat1, lon1, lat2, lon2) ==
    LET x == <<Times(Sub(lat2, lat1), P), Times(lat1, P), Times(lat2, P),
               Times(Sub(lon2, lon1), P)>>
    IN  {c \in cos(x[1]) \X cos(x[2]) \X cos(x[3]) \X cos(x[4]) :
            \A i, j \in 1..4 : abs(x[i]) = abs(x[j]) => c[i] = c[j]}

\* The term a of lines 30-31, for the values c of the four cosines:
\*   a = 0.5 - cos((lat2 - lat1)*p)/2
\*       + cos(lat1*p) * cos(lat2*p) * (1 - cos((lon2 - lon1)*p))/2
TermA(c) ==
    Add(Sub(Half, Halved(c[1])),
        Halved(Times(Times(c[2], c[3]), Sub(Unity, c[4]))))

\* The values the term a may take.
HaversineA(lat1, lon1, lat2, lon2) ==
    {TermA(c) : c \in Cosines(lat1, lon1, lat2, lon2)}

\* asin of the root r of the term a: the ValueError math.asin raises for an
\* argument above 1, or the value 2 * R * asin(r) returned.
AsinOfRoot(a, r) ==
    IF ~Leq(r, Unity)
    THEN {[exc |-> "ValueError", a |-> a, root_of |-> a, value |-> Zero]}
    ELSE {[exc |-> "none", a |-> a, root_of |-> a,
           value |-> Times(OfInt(2 * R), s)] : s \in asin(r)}

\* Line 32, return 2 * R * asin(sqrt(a)): math.sqrt raises ValueError for
\* a negative argument.  No line between the term a and the square root
\* changes a.
Line32(a) ==
    IF a.neg
    THEN {[exc |-> "ValueError", a |-> a, root_of |-> a, value |-> Zero]}
    ELSE AsinOfRoot(a, sqrt(a))

\* The call: what it may do.  Each outcome is the value returned, or the
\* ValueError ("math domain error") that math.sqrt raises for a negative
\* argument and math.asin for one above 1.  root_of is the number handed
\* to math.sqrt.
great_circle_distance(lat1, lon1, lat2, lon2) ==
    UNION {Line32(a) : a \in HaversineA(lat1, lon1, lat2, lon2)}

---------------------------------------------------------------------------
(* Data frames                                                             *)

Range(s) == {s[i] : i \in 1..Len(s)}

\* pandas' RangeIndex of n rows: the labels 0 .. n-1.
RangeIndex(n) == [name |-> "None", labels |-> [i \in 1..n |-> i - 1]]

\* pd.DataFrame([]): no columns and no rows.
EmptyFrame == [columns |-> <<>>, index |-> RangeIndex(0), rows |-> <<>>]

HasColumn(df, c) == c \in Range(df.columns)

\* The values of one column, in row order.
Column(df, c) == [i \in 1..Len(df.rows) |-> df.rows[i][c]]

\* pd.DataFrame(list_of_dicts) of line 128: the columns are the keys of the
\* dicts, so an empty list gives a frame without columns.
DataFrame(dicts) ==
    IF dicts = <<>> THEN EmptyFrame
    ELSE [columns |-> <<"place A", "place B", "distance">>,
          index |-> RangeIndex(Len(dicts)),
          rows |-> dicts]

\* A faulty variant of set_index, with drop=False: the column becomes the
\* index and stays among the columns.
set_index_keep_column(df, col) ==
    [columns |-> df.columns,
     index |-> [name |-> col, labels |-> Column(df, col)],
     rows |-> df.rows]

\* df.set_index(col, drop=True, inplace=True) of line 91, as the frame it
\* leaves behind: the column becomes the index and leaves the columns.
set_index(df, col) ==
    [columns |-> SelectSeq(df.columns, LAMBDA c : c # col),
     index |-> [name |-> col, labels |-> Column(df, col)],
     rows |-> [i \in 1..Len(df.rows) |->
                  [c \in (DOMAIN df.rows[i]) \ {col} |-> df.rows[i][c]]]]

\* places_df.T.apply(tuple).to_dict() of line 94: from each index label to
\* the {'Latitude': .., 'Longitude': ..} of its row (the last such row).
to_dict(df) ==
    LET n == Len(df.rows)
        last(k) == CHOOSE i \in 1..n :
                      /\ df.index.labels[i] = k
                      /\ \A j \in 1..n : df.index.labels[j] = k => j <= i
    IN  [k \in Range(df.index.labels) |-> df.rows[last(k)]]

\* The rows of a frame in the order p, each with its index label.
Reorder(df, p) ==
    [columns |-> df.columns,
     index |-> [name |-> df.index.name,
                labels |-> [i \in 1..Len(df.rows) |-> df.index.labels[p[i]]]],
     rows |-> [i \in 1..Len(df.rows) |-> df.rows[p[i]]]]

\* The arrangements of the rows of a frame in which the keys of a column
\* do not fall, or do not rise when descending is set.
Arrangements(df, by, descending) ==
    {Reorder(df, p) : p \in {q \in Permutations(1..Len(df.rows)) :
        \A i \in 1..(Len(df.rows) - 1) :
            IF descending THEN Leq(df.rows[q[i + 1]][by], df.rows[q[i]][by])
            ELSE Leq(df.rows[q[i]][by], df.rows[q[i + 1]][by])}}

\* A faulty variant of sort_values, with ascending=False.
sort_values_descending(df, by) == Arrangements(df, by, TRUE)

\* df.sort_values(by=..), lines 128 and 165: ascending by the column, with
\* the default kind, 'quicksort'.  No stable kind is asked for, and in
\* which order numpy's quicksort leaves rows with equal keys depends on the
\* build of numpy and on the processor: every ascending arrangement is an
\* outcome.
sort_values(df, by) == Arrangements(df, by, FALSE)

\* A faulty variant of reset_index that leaves the index as it is, as if
\* line 166 were missing.
reset_index_skipped(df) == df

\* df.reset_index(drop=True, inplace=True) of line 166.
reset_index(df) ==
    [columns |-> df.columns, index |-> RangeIndex(Len(df.rows)), rows |-> df.rows]

RECURSIVE SumTo(_, _)
\* The sum of the first n values of a column, added one after the other.
SumTo(s, n) == IF n = 1 THEN s[1] ELSE Add(SumTo(s, n - 1), s[n])

\* Series.mean() of line 159, for a column with at least one value: the
\* sum of the values, added in row order, divided by their number.
mean(s) == DivSmall(SumTo(s, Len(s)), Len(s))

\* The tenths of a wide number of tenths t, rounded to nearest: the decimal
\* nearest to the float, and of two equally near the even one.
NearestTenth(t) ==
    IF \/ t[2] > Base \div 2
       \/ /\ t[2] = Base \div 2
          /\ \/ \E i \in 3..7 : t[i] # 0
             \/ t[1] % 2 = 1
    THEN t[1] + 1
    ELSE t[1]

\* The tenths printed for a float x >= 0 below Base^2.
Tenths(x) ==
    NearestTenth(WTimes(IF x.e = 1 THEN Shl1(x.w) ELSE Shr(x.w, -x.e), 10))

\* '{:.1f}'.format(x) of lines 156 and 173: the number of tenths printed,
\* the decimal nearest to the binary64 x.
Format1f(x) == IF x.neg THEN -Tenths(x) ELSE Tenths(x)

---------------------------------------------------------------------------
(* get_random_places                                                       *)

\* The heights np.random.uniform(-R, R, n) draws from, in kilometres.
ZGrid == {0, 3186}

\* The longitudes np.random.uniform(-180, 180, n) draws from, in degrees.
PhiGrid == {0, 90}

\* 1/pi times Base, for the binary64 pi, cut after the seventh digit.
InvPi == <<5215, 3099, 7324, 8715, 7800, 10067, 4971>>

\* x / pi for a float x: the quotient is no float and no half-way point
\* between two floats, so the digits cut off only tell that there are some.
DivPi(x) ==
    IF IsZero(x) THEN Zero ELSE Norm(x.neg, x.e - 1, WMul(x.w, InvPi), TRUE)

\* theta = np.arcsin(z/R)*180/pi of line 69, for a height z of whole
\* kilometres: the values it may take.
Theta(z) == {DivPi(Times(s, OfInt(180))) : s \in asin(DivSmall(OfInt(z), R))}

\* The frames get_random_places(n) may return when the random source
\* yields the heights z and the longitudes phi.
get_random_places(n, z, phi) ==
    LET lat == [i \in 1..n |-> Theta(z[i])]
    IN  {[columns |-> <<"Name", "Latitude", "Longitude">>,
          index |-> RangeIndex(n),
          rows |-> [i \in 1..n |->
                       ("Name" :> ("Location" \o ToString(i))) @@
                       ("Latitude" :> theta[i]) @@
                       ("Longitude" :> OfInt(phi[i]))]] :
         theta \in {t \in [1..n -> UNION {lat[i] : i \in 1..n}] :
                       \A i \in 1..n : t[i] \in lat[i]}}

---------------------------------------------------------------------------
(* create_distances_df                                                     *)

\* A faulty variant of combinations: itertools.permutations(s, 2), every
\* ordered pair of two positions.
permutations2(s) ==
    LET n == Len(s)
    IN  [k \in 1..(n * (n - 1)) |->
            LET i == ((k - 1) \div (n - 1)) + 1
                r == ((k - 1) % (n - 1)) + 1
                j == IF r < i THEN r ELSE r + 1
            IN  <<s[i], s[j]>>]

RECURSIVE combinations(_)
\* itertools.combinations(s, 2), line 98: every pair <<s[i], s[j]>>, i < j,
\* in lexicographic order of the positions.
combinations(s) ==
    IF Len(s) < 2 THEN <<>>
    ELSE [j \in 1..(Len(s) - 1) |-> <<s[1], s[j + 1]>>] \o combinations(Tail(s))

\* The orders in which set(places_dict.keys()) may be iterated: a set of
\* strings has no fixed order (string hashing differs from run to run).
SetOrders(S) ==
    {s \in [1..Cardinality(S) -> S] :
        \A i, j \in 1..Cardinality(S) : i # j => s[i] # s[j]}

\* Lines 105-125 for one pair: the distance call and the dict appended.
Appended(pair, g) ==
    [exc |-> g.exc,
     row |-> ("place A" :> pair[1]) @@ ("place B" :> pair[2]) @@
             ("distance" :> g.value)]

DistanceRecord(places_dict, pair) ==
    {Appended(pair, g) :
        g \in great_circle_distance(places_dict[pair[1]]["Latitude"],
                                    places_dict[pair[1]]["Longitude"],
                                    places_dict[pair[2]]["Latitude"],
                                    places_dict[pair[2]]["Longitude"])}

\* The least element of a set of numbers.
Min(S) == CHOOSE k \in S : \A j \in S : k <= j

\* Line 128 after the loop: the frame of the records, sorted; sorting a
\* frame without the column 'distance' raises KeyError.
Line128(indexed, dicts) ==
    IF ~HasColumn(DataFrame(dicts), "distance")
    THEN {[exc |-> "KeyError", places_df |-> indexed,
           list_of_dicts |-> dicts, distances_df |-> EmptyFrame]}
    ELSE {[exc |-> "none", places_df |-> indexed,
           list_of_dicts |-> dicts,
           distances_df |-> s] : s \in sort_values(DataFrame(dicts), "distance")}

\* What follows from the records built for the pairs, of which those in
\* failed raised: the first call that raises ends the function, and
\* without one line 128 runs.
AfterLoop(indexed, built, failed) ==
    IF failed # {}
    THEN {[exc |-> built[Min(failed)].exc, places_df |-> indexed,
           list_of_dicts |-> [k \in 1..(Min(failed) - 1) |-> built[k].row],
           distances_df |-> EmptyFrame]}
    ELSE Line128(indexed, [k \in 1..Len(built) |-> built[k].row])

Failed(built) == {k \in 1..Len(built) : built[k].exc # "none"}

Records(indexed, built) == AfterLoop(indexed, built, Failed(built))

RECURSIVE Built(_, _, _)
\* What the first k passes of the loop of lines 103-125 may build: for
\* each pair one of the records its distance call may give.
Built(places_dict, pairs, k) ==
    IF k = 0 THEN {<<>>}
    ELSE {Append(b, r) : b \in Built(places_dict, pairs, k - 1),
                         r \in DistanceRecord(places_dict, pairs[k])}

\* The loop of lines 103-125 over the pairs, and line 128.
Loop(indexed, places_dict, pairs) ==
    UNION {Records(indexed, built) : built \in Built(places_dict, pairs, Len(pairs))}

\* create_distances_df(places_df) when the set of names is iterated in the
\* given order: what it may do.  Each outcome holds the exception raised (or
\* "none"), the caller's frame as the call leaves it, the records built and
\* the frame returned.
create_distances_df(df, order) ==
    IF ~HasColumn(df, "Name")
    THEN {[exc |-> "KeyError", places_df |-> df,
           list_of_dicts |-> <<>>, distances_df |-> EmptyFrame]}
    ELSE Loop(set_index(df, "Name"), to_dict(set_index(df, "Name")),
              combinations(order))

---------------------------------------------------------------------------
(* print_results                                                           *)

BlankLine == [kind |-> "blank"]

\* Line 156: one printed row.
RowLine(row) ==
    [kind |-> "row", a |-> row["place A"], b |-> row["place B"],
     c |-> Format1f(row["distance"])]

\* Line 173: the average and the closest pair.
SummaryLine(avg, row) ==
    [kind |-> "summary", avg |-> Format1f(avg), place_a |-> row["place A"],
     place_b |-> row["place B"], dist |-> Format1f(row["distance"])]

\* A faulty variant of line 162, without abs(): diff_mean = distance - avg.
with_signed_diff(df, avg) ==
    [columns |-> IF HasColumn(df, "diff_mean") THEN df.columns
                 ELSE Append(df.columns, "diff_mean"),
     index |-> df.index,
     rows |-> [i \in 1..Len(df.rows) |->
                  ("diff_mean" :> Sub(df.rows[i]["distance"], avg)) @@ df.rows[i]]]

\* Line 162: the frame with the column diff_mean set to |distance - avg|.
with_diff_mean(df, avg) ==
    [columns |-> IF HasColumn(df, "diff_mean") THEN df.columns
                 ELSE Append(df.columns, "diff_mean"),
     index |-> df.index,
     rows |-> [i \in 1..Len(df.rows) |->
                  ("diff_mean" :> abs(Sub(df.rows[i]["distance"], avg))) @@ df.rows[i]]]

\* A variant of print_results that returns at once, without a summary and
\* without an exception, when the frame holds no row.
print_results_guarded(df) ==
    LET n == Len(df.rows)
        listing == <<BlankLine>> \o [i \in 1..n |-> RowLine(df.rows[i])]
        avg == mean(Column(df, "distance"))
    IN  IF n = 0
        THEN {[exc |-> "none", distances_df |-> df, stdout |-> listing]}
        ELSE {[exc |-> "none", distances_df |-> reset_index(s),
               stdout |-> listing \o <<BlankLine, SummaryLine(avg, s.rows[1])>>] :
              s \in sort_values(with_diff_mean(df, avg), "diff_mean")}

\* df[col][label] of lines 169-171: the row the index labels so, or 0 when
\* no row is labelled so (the lookup then raises KeyError).
RowAt(df, label) ==
    LET found == {i \in 1..Len(df.rows) : df.index.labels[i] = label}
    IN  IF found = {} THEN 0 ELSE CHOOSE i \in found : \A j \in found : i <= j

\* print_results(distances_df): what it may do.  Each outcome holds the
\* exception raised (or "none"), the caller's frame as the call leaves it
\* and the lines printed.  For a frame without rows the mean of line 159 is
\* NaN and lines 162-166 run on no rows.
print_results(df) ==
    LET n == Len(df.rows)
        listing == <<BlankLine>> \o [i \in 1..n |-> RowLine(df.rows[i])]
        avg == mean(Column(df, "distance"))
        outcome(sorted) ==
            LET final == reset_index(sorted)
                at == RowAt(final, 0)
            IN  IF at = 0
                THEN [exc |-> "KeyError", distances_df |-> final,
                      stdout |-> listing]
                ELSE [exc |-> "none", distances_df |-> final,
                      stdout |-> listing \o
                          <<BlankLine, SummaryLine(avg, final.rows[at])>>]
    IN  IF ~HasColumn(df, "distance")
        THEN \* line 159: the frame has no attribute 'distance'
             {[exc |-> "AttributeError", distances_df |-> df, stdout |-> listing]}
        ELSE {outcome(s) : s \in sort_values(with_diff_mean(df, avg), "diff_mean")}

---------------------------------------------------------------------------
(* main: the command line                                                  *)

\* sys.argv[0].
Script == <<"main.py">>

DecimalDigits == {"0", "1", "2", "3", "4", "5", "6", "7", "8", "9"}

\* The character U+00B2, SUPERSCRIPT TWO: a digit to str.isdigit, but no
\* decimal digit to int().
SuperscriptTwo == "sup2"

\* str.isdigit() of line 196: the string is not empty and all its
\* characters are digits.
isdigit(s) ==
    /\ Len(s) > 0
    /\ \A i \in 1..Len(s) : s[i] \in DecimalDigits \cup {SuperscriptTwo}

DigitValue(c) ==
    CASE c = "0" -> 0 [] c = "1" -> 1 [] c = "2" -> 2 [] c = "3" -> 3
      [] c = "4" -> 4 [] c = "5" -> 5 [] c = "6" -> 6 [] c = "7" -> 7
      [] c = "8" -> 8 [] c = "9" -> 9

RECURSIVE DecimalValue(_)
DecimalValue(s) ==
    IF s = <<>> THEN 0
    ELSE 10 * DecimalValue(SubSeq(s, 1, Len(s) - 1)) + DigitValue(s[Len(s)])

\* int(sys.argv[1]) of line 201, for a string str.isdigit() accepts: its
\* value, or the ValueError ("invalid literal for int()") raised for a
\* character that is no decimal digit.
int(s) ==
    IF \A i \in 1..Len(s) : s[i] \in DecimalDigits
    THEN [exc |-> "none", value |-> DecimalValue(s)]
    ELSE [exc |-> "ValueError", value |-> 0]

\* The messages of lines 217, 220 and 222.
MsgAtLeastTwo ==
    "The provided (whole number) argument has to be at least 2. Please try again"

MsgNotInteger == "The provided argument is not an integer. Please try again"

MsgTooMany == "Too many arguments prodvided. Please provide 0 or 1 argument"

Message(text) == [kind |-> "message", text |-> text]

---------------------------------------------------------------------------
(* Inputs                                                                  *)

\* The arguments a run may be given, each a sequence of characters.
ArgChoices ==
    {<<"2">>, <<"3">>, <<"0", "3">>, <<"1">>, <<"0">>, <<"-", "3">>,
     <<"+", "3">>, <<"a">>, <<"2", ".", "5">>, <<SuperscriptTwo>>, <<>>}

ArgvChoices ==
    {Script \o args : args \in UNION {[1..k -> ArgChoices] : k \in 0..MaxArgc}}

\* The names of the places of places.csv, row by row.
NamePool == <<"Alta", "London", "Oslo", "Vardo", "Bergen">>

\* The coordinates (latitude, longitude) the places of places.csv lie at.
CoordPool == {<<0, 0>>, <<0, 180>>, <<30, 0>>, <<-30, 0>>}

\* pd.read_csv('places.csv') of line 183: the frames a file with the header
\* Name,Latitude,Longitude and at most MaxN places may give.  The names are
\* unique and no two places share their coordinates.
FileFrames ==
    UNION {{[columns |-> <<"Name", "Latitude", "Longitude">>,
             index |-> RangeIndex(n),
             rows |-> [i \in 1..n |->
                          ("Name" :> NamePool[i]) @@
                          ("Latitude" :> OfInt(at[i][1])) @@
                          ("Longitude" :> OfInt(at[i][2]))]] :
            at \in {f \in [1..n -> CoordPool] :
                       \A i, j \in 1..n : i # j => f[i] # f[j]}} :
           n \in 0..MaxN}

\* The latitude -64.6.
Lat646 == DivSmall(OfInt(-646), 10)

\* The latitude 64.60000002, the binary64 nearest to it: with -64.6 and
\* longitudes 180 degrees apart, two places 2e-8 degrees short of antipodal.
LatNearAntipode == Float(FALSE, 0, <<64, 9830, 6558, 15871, 5120, 0, 0>>)

\* The latitudes and longitudes great_circle_distance is called with on its
\* own: the range of the docstring, with two places that are nearly
\* antipodes, and one latitude outside it.
LatProbe ==
    {OfInt(d) : d \in {-90, -60, -30, 0, 30, 60, 90, 150}}
    \cup {Lat646, LatNearAntipode}

LonProbe == {OfInt(d) : d \in {-180, -90, 0, 90, 180}}

InRange(lat, lon) ==
    /\ Leq(OfInt(-90), lat)
    /\ Leq(lat, OfInt(90))
    /\ Leq(OfInt(-180), lon)
    /\ Leq(lon, OfInt(180))

\* The distances of the records print_results is called with on its own,
\* in kilometres.
DistPool == {0, 1, 2, 10, 30}

\* The frames of records print_results is called with on its own: up to
\* MaxRecs records in ascending order of distance, a frame with the three
\* columns and no row, and the frame without columns.
RecordFrames ==
    {EmptyFrame,
     [columns |-> <<"place A", "place B", "distance">>,
      index |-> RangeIndex(0), rows |-> <<>>]}
    \cup
    UNION {{DataFrame([i \in 1..n |->
                          ("place A" :> ("P" \o ToString(i))) @@
                          ("place B" :> ("Q" \o ToString(i))) @@
                          ("distance" :> OfInt(d[i]))]) :
            d \in {f \in [1..n -> DistPool] :
                      \A i \in 1..(n - 1) : f[i] <= f[i + 1]}} :
           n \in 1..MaxRecs}

\* The outcome before a call.
NoCall == [exc |-> "none", a |-> Zero, root_of |-> Zero, value |-> Zero]

\* The arguments before a call.
NoArgs == <<Zero, Zero, Zero, Zero>>

---------------------------------------------------------------------------
(* The run of main()                                                       *)

Init ==
    /\ pc = "start"
    /\ argv \in ArgvChoices
    /\ places_df = EmptyFrame
    /\ places_in = EmptyFrame
    /\ list_of_dicts = <<>>
    /\ distances_df = EmptyFrame
    /\ records_in = EmptyFrame
    /\ stdout = <<>>
    /\ calls = <<>>
    /\ exc = "none"
    /\ exit_status = -1
    /\ gc_in = NoArgs
    /\ gc_out = NoCall

\* main() returns after printing a message: lines 217, 220, 222.
Reject(text) ==
    /\ stdout' = Append(stdout, Message(text))
    /\ pc' = "done"
    /\ exit_status' = 0
    /\ UNCHANGED <<argv, places_df, places_in, list_of_dicts, distances_df,
                   records_in, calls, exc, gc_in, gc_out>>

\* Lines 178-183: no argument, the places are read from places.csv.
MainLoad ==
    /\ pc = "start"
    /\ Len(argv) = 1
    /\ \E file \in FileFrames : places_df' = file
    /\ calls' = Append(calls, "read_csv")
    /\ pc' = "create"
    /\ UNCHANGED <<argv, places_in, list_of_dicts, distances_df, records_in,
                   stdout, exc, exit_status, gc_in, gc_out>>

\* Lines 192-208: one argument, all digits, at least 2: the places are
\* drawn at random.  The draws are continuous, so no two places share
\* their coordinates.
MainGenerate ==
    /\ pc = "start"
    /\ Len(argv) = 2
    /\ isdigit(argv[2])
    /\ int(argv[2]).exc = "none"
    /\ LET n == int(argv[2]).value
       IN  /\ n >= 2
           /\ n <= MaxN
           /\ \E z \in [1..n -> ZGrid], phi \in [1..n -> PhiGrid] :
                 /\ \A i, j \in 1..n : i # j => <<z[i], phi[i]>> # <<z[j], phi[j]>>
                 /\ places_df' \in get_random_places(n, z, phi)
    /\ calls' = Append(calls, "get_random_places")
    /\ pc' = "create"
    /\ UNCHANGED <<argv, places_in, list_of_dicts, distances_df, records_in,
                   stdout, exc, exit_status, gc_in, gc_out>>

\* Line 201 raises: the argument is all digits to str.isdigit(), but int()
\* does not take it.  Nothing catches the exception.
MainIntRaises ==
    /\ pc = "start"
    /\ Len(argv) = 2
    /\ isdigit(argv[2])
    /\ int(argv[2]).exc # "none"
    /\ exc' = int(argv[2]).exc
    /\ pc' = "done"
    /\ exit_status' = 1
    /\ UNCHANGED <<argv, places_df, places_in, list_of_dicts, distances_df,
                   records_in, stdout, calls, gc_in, gc_out>>

\* Lines 203, 216-217: the number is below 2.
MainTooSmall ==
    /\ pc = "start"
    /\ Len(argv) = 2
    /\ isdigit(argv[2])
    /\ int(argv[2]).exc = "none"
    /\ int(argv[2]).value < 2
    /\ Reject(MsgAtLeastTwo)

\* Lines 196, 219-220: the argument is not all digits.
MainNotInteger ==
    /\ pc = "start"
    /\ Len(argv) = 2
    /\ ~isdigit(argv[2])
    /\ Reject(MsgNotInteger)

\* Lines 221-222: more than one argument.
MainTooMany ==
    /\ pc = "start"
    /\ Len(argv) > 2
    /\ Reject(MsgTooMany)

\* Lines 186 and 211: distances_df = create_distances_df(places_df).
CreateDistances ==
    /\ pc = "create"
    /\ places_in' = places_df
    /\ calls' = Append(calls, "create_distances_df")
    /\ \E order \in SetOrders(Range(Column(places_df, "Name"))) :
          \E out \in create_distances_df(places_df, order) :
             /\ places_df' = out.places_df
             /\ list_of_dicts' = out.list_of_dicts
             /\ exc' = out.exc
             /\ IF out.exc = "none"
                THEN /\ distances_df' = out.distances_df
                     /\ pc' = "print"
                     /\ UNCHANGED exit_status
                ELSE /\ pc' = "done"
                     /\ exit_status' = 1
                     /\ UNCHANGED distances_df
    /\ UNCHANGED <<argv, records_in, stdout, gc_in, gc_out>>

\* Lines 189 and 214: print_results(distances_df), then main() returns.
PrintResults ==
    /\ pc = "print"
    /\ records_in' = distances_df
    /\ calls' = Append(calls, "print_results")
    /\ \E out \in print_results(distances_df) :
          /\ distances_df' = out.distances_df
          /\ stdout' = stdout \o out.stdout
          /\ exc' = out.exc
          /\ exit_status' = IF out.exc = "none" THEN 0 ELSE 1
    /\ pc' = "done"
    /\ UNCHANGED <<argv, places_df, places_in, list_of_dicts, gc_in, gc_out>>

Next ==
    \/ MainLoad
    \/ MainGenerate
    \/ MainIntRaises
    \/ MainTooSmall
    \/ MainNotInteger
    \/ MainTooMany
    \/ CreateDistances
    \/ PrintResults

Spec == Init /\ [][Next]_vars

---------------------------------------------------------------------------
(* great_circle_distance called on its own                                 *)

InitDist ==
    /\ pc = "gc_call"
    /\ gc_in \in LatProbe \X LonProbe \X LatProbe \X LonProbe
    /\ gc_out = NoCall
    /\ argv = Script
    /\ places_df = EmptyFrame
    /\ places_in = EmptyFrame
    /\ list_of_dicts = <<>>
    /\ distances_df = EmptyFrame
    /\ records_in = EmptyFrame
    /\ stdout = <<>>
    /\ calls = <<>>
    /\ exc = "none"
    /\ exit_status = -1

GreatCircleCall ==
    /\ pc = "gc_call"
    /\ gc_out' \in great_circle_distance(gc_in[1], gc_in[2], gc_in[3], gc_in[4])
    /\ pc' = "gc_done"
    /\ UNCHANGED <<argv, places_df, places_in, list_of_dicts, distances_df,
                   records_in, stdout, calls, exc, exit_status, gc_in>>

NextDist == GreatCircleCall

SpecDist == InitDist /\ [][NextDist]_vars

---------------------------------------------------------------------------
(* print_results called on its own                                         *)

InitPrint ==
    /\ pc = "print"
    /\ distances_df \in RecordFrames
    /\ records_in = EmptyFrame
    /\ argv = Script
    /\ places_df = EmptyFrame
    /\ places_in = EmptyFrame
    /\ list_of_dicts = <<>>
    /\ stdout = <<>>
    /\ calls = <<>>
    /\ exc = "none"
    /\ exit_status = -1
    /\ gc_in = NoArgs
    /\ gc_out = NoCall

NextPrint == PrintResults

SpecPrint == InitPrint /\ [][NextPrint]_vars

---------------------------------------------------------------------------
(* Properties                                                              *)

Called(f) == f \in Range(calls)

\* create_distances_df has returned a frame to main().
Created == pc = "print" \/ Called("print_results")

\* print_results has returned to main().
Printed == pc = "done" /\ Called("print_results") /\ exc = "none"

\* The last line printed.
LastLine == stdout[Len(stdout)]

\* The two places of a record, as an unordered pair.
Pair(row) == {row["place A"], row["place B"]}

\* A printed summary names this record.
Names(line, row) ==
    /\ line.place_a = row["place A"]
    /\ line.place_b = row["place B"]
    /\ line.dist = Format1f(row["distance"])

\* The whole number of kilometres a distance is, for a distance that is a
\* whole number below Base.
Whole(x) == IF IsZero(x) THEN 0 ELSE x.w[1]

RECURSIVE WholeSum(_, _)
\* The sum of the first n distances of a frame of whole distances.
WholeSum(df, n) ==
    IF n = 0 THEN 0 ELSE WholeSum(df, n - 1) + Whole(df.rows[n]["distance"])

Total(df) == WholeSum(df, Len(df.rows))

\* How far the distance of record i of a frame of whole distances is from
\* the mean of the frame, exactly, in units of 1/n km for n records.
Deviation(df, i) == Abs(Len(df.rows) * Whole(df.rows[i]["distance"]) - Total(df))

\* The records of a frame of whole distances whose distance is closest to
\* the mean.
Closest(df) ==
    {i \in 1..Len(df.rows) :
        \A j \in 1..Len(df.rows) : Deviation(df, i) <= Deviation(df, j)}

\* |distance - mean| of record i of a frame, in float arithmetic.
Apart(df, i) == abs(Sub(df.rows[i]["distance"], mean(Column(df, "distance"))))

\* The records of a frame that share the least |distance - mean|.
Tied(df) ==
    {i \in 1..Len(df.rows) :
        \A j \in 1..Len(df.rows) : Leq(Apart(df, i), Apart(df, j))}

Least(S) == CHOOSE i \in S : \A j \in S : i <= j

\* C1: for N >= 2 uniquely named places create_distances_df returns exactly
\* N*(N-1)/2 records, none with place A equal to place B, and no unordered
\* pair of places in two records.
C1_EveryPairOnce ==
    (pc = "print" /\ Len(places_in.rows) >= 2) =>
        LET N == Len(places_in.rows)
            rows == distances_df.rows
        IN  /\ 2 * Len(rows) = N * (N - 1)
            /\ \A i \in 1..Len(rows) :
                  /\ rows[i]["place A"] # rows[i]["place B"]
                  /\ Pair(rows[i]) \subseteq Range(Column(places_in, "Name"))
            /\ \A i, j \in 1..Len(rows) : i # j => Pair(rows[i]) # Pair(rows[j])

\* Three places have given three records.
C1_Witness ==
    /\ pc = "print"
    /\ Len(places_in.rows) = 3
    /\ Len(distances_df.rows) = 3

\* C2: the records create_distances_df returns are in non-decreasing order
\* of distance, and they are the records built from the pairs, rearranged:
\* none dropped, none added.
C2_SortedRearrangement ==
    pc = "print" =>
        LET rows == distances_df.rows
            n == Len(rows)
        IN  /\ \A i \in 1..(n - 1) : Leq(rows[i]["distance"], rows[i + 1]["distance"])
            /\ n = Len(list_of_dicts)
            /\ \E p \in Permutations(1..n) :
                  \A i \in 1..n : rows[i] = list_of_dicts[p[i]]

\* The records were built out of order, so the sort had to move one.
C2_Witness ==
    /\ pc = "print"
    /\ \E i \in 1..(Len(list_of_dicts) - 1) :
          ~Leq(list_of_dicts[i]["distance"], list_of_dicts[i + 1]["distance"])

\* C3: for a frame with at least one record print_results reports the
\* arithmetic mean of the distances (printed to the nearest tenth of a
\* kilometre) and, as closest pair, a record of the frame whose
\* |distance - mean| no other record of the frame undercuts.
C3_ClosestToMean ==
    (pc = "done" /\ Len(records_in.rows) > 0) =>
        LET rows == records_in.rows
            n == Len(rows)
            line == LastLine
        IN  /\ exc = "none"
            /\ line.kind = "summary"
            /\ 2 * Abs(n * line.avg - 10 * Total(records_in)) <= n
            /\ \E i \in Closest(records_in) : Names(line, rows[i])

\* Of three records, the closest to the mean is not the first handed in.
C3_Witness ==
    /\ pc = "done"
    /\ exc = "none"
    /\ Len(records_in.rows) = 3
    /\ LastLine.kind = "summary"
    /\ ~Names(LastLine, records_in.rows[1])

\* C4: for coordinates in range the call returns a distance, the distance
\* from A to B is one the call from B to A returns too and that call
\* raises nothing either, the distance from A to A is 0, and no distance
\* is negative.
C4_SymmetricZeroNonNegative ==
    (pc = "gc_done" /\ InRange(gc_in[1], gc_in[2]) /\ InRange(gc_in[3], gc_in[4])) =>
        LET back == great_circle_distance(gc_in[3], gc_in[4], gc_in[1], gc_in[2])
        IN  /\ gc_out.exc = "none"
            /\ gc_out.value \in {b.value : b \in back}
            /\ \A b \in back : b.exc = "none"
            /\ ~gc_out.value.neg
            /\ (gc_in[1] = gc_in[3] /\ gc_in[2] = gc_in[4]) => gc_out.value = Zero

\* A decimal integer literal: an optional sign, then decimal digits.
IsIntegerArg(s) ==
    LET body == IF Len(s) > 0 /\ s[1] \in {"+", "-"} THEN Tail(s) ELSE s
    IN  /\ Len(body) > 0
        /\ \A i \in 1..Len(body) : body[i] \in DecimalDigits

IntegerArgValue(s) ==
    IF s[1] = "-" THEN -DecimalValue(Tail(s))
    ELSE IF s[1] = "+" THEN DecimalValue(Tail(s))
    ELSE DecimalValue(s)

\* The pipeline was entered: create_distances_df was called.
PipelineRun(source) ==
    /\ Len(calls) >= 2
    /\ calls[1] = source
    /\ calls[2] = "create_distances_df"
    /\ Called("print_results") <=> (Len(calls) = 3 /\ calls[3] = "print_results")

\* C5: no argument loads the file and runs the pipeline; one
\* argument that is an integer n >= 2 generates n places and runs the
\* pipeline; any other input is rejected with a message and a non-zero
\* outcome, and the pipeline is never invoked.
C5_RejectsWithNonZeroOutcome ==
    pc = "done" =>
        IF Len(argv) = 1
        THEN PipelineRun("read_csv")
        ELSE IF Len(argv) = 2 /\ IsIntegerArg(argv[2]) /\ IntegerArgValue(argv[2]) >= 2
        THEN /\ PipelineRun("get_random_places")
             /\ Len(places_in.rows) = IntegerArgValue(argv[2])
        ELSE /\ Len(stdout) > 0
             /\ stdout[1].kind = "message"
             /\ exit_status # 0
             /\ calls = <<>>

\* C6: given fewer than 2 places, create_distances_df completes without
\* an error and returns a frame without records.
C6_FewPlacesGiveNoRecords ==
    (Called("create_distances_df") /\ Len(places_in.rows) < 2) =>
        /\ exc = "none"
        /\ Created
        /\ distances_df.rows = <<>>

\* C7 as stated: given no records, print_results fails with an
\* EmptyInputError and reports no average and no closest pair.
C7_EmptyInputError ==
    (pc = "done" /\ Called("print_results") /\ Len(records_in.rows) = 0) =>
        /\ exc = "EmptyInputError"
        /\ \A i \in 1..Len(stdout) : stdout[i].kind # "summary"

\* C7 as the code has it: given no records, print_results fails with the
\* exception of the lookup that finds nothing - an AttributeError at line
\* 159 for a frame without the column 'distance', a KeyError at line 169
\* for a frame with the columns and no row - after printing one empty line,
\* and reports no average and no closest pair.
C7_EmptyInputLookupError ==
    (pc = "done" /\ Called("print_results") /\ Len(records_in.rows) = 0) =>
        /\ exc = (IF HasColumn(records_in, "distance") THEN "KeyError"
                  ELSE "AttributeError")
        /\ exit_status = 1
        /\ stdout = <<BlankLine>>

\* print_results was given the three columns and no row.
C7_Witness ==
    /\ pc = "done"
    /\ Called("print_results")
    /\ Len(records_in.rows) = 0
    /\ HasColumn(records_in, "distance")
    /\ exc = "KeyError"

\* C8: for coordinates in range the call raises no exception, and a
\* negative a is clamped to 0 before the square root is taken.
C8_NoExceptionInRange ==
    (pc = "gc_done" /\ InRange(gc_in[1], gc_in[2]) /\ InRange(gc_in[3], gc_in[4])) =>
        /\ gc_out.exc = "none"
        /\ gc_out.a.neg => gc_out.root_of = Zero

SameFrame(f, g) ==
    /\ f.columns = g.columns
    /\ f.index.name = g.index.name
    /\ f.index.labels = g.index.labels
    /\ f.rows = g.rows

\* C10 as stated: create_distances_df leaves the caller's places as they
\* were, and print_results leaves the caller's records as they were.
C10_InputsUnchanged ==
    /\ Created => SameFrame(places_df, places_in)
    /\ Printed => SameFrame(distances_df, records_in)

\* C10 as the code has it: create_distances_df changes the caller's frame
\* in place - the column Name becomes the index - and keeps the rows, their
\* order and their coordinates; print_results changes the caller's frame in
\* place - it adds the column diff_mean, orders the rows by it and numbers
\* them anew - and keeps the records and their three fields.
C10_InputsChangedInPlace ==
    /\ Created =>
          /\ places_df.columns = <<"Latitude", "Longitude">>
          /\ places_df.index.name = "Name"
          /\ Len(places_df.rows) = Len(places_in.rows)
          /\ \A i \in 1..Len(places_in.rows) :
                /\ places_df.index.labels[i] = places_in.rows[i]["Name"]
                /\ places_df.rows[i]["Latitude"] = places_in.rows[i]["Latitude"]
                /\ places_df.rows[i]["Longitude"] = places_in.rows[i]["Longitude"]
    /\ Printed =>
          LET n == Len(records_in.rows)
          IN  /\ distances_df.columns = Append(records_in.columns, "diff_mean")
              /\ distances_df.index = RangeIndex(n)
              /\ Len(distances_df.rows) = n
              /\ \A i \in 1..(n - 1) :
                    Leq(distances_df.rows[i]["diff_mean"], distances_df.rows[i + 1]["diff_mean"])
              /\ \E p \in Permutations(1..n) :
                    \A i \in 1..n :
                       /\ distances_df.rows[i]["place A"] = records_in.rows[p[i]]["place A"]
                       /\ distances_df.rows[i]["place B"] = records_in.rows[p[i]]["place B"]
                       /\ distances_df.rows[i]["distance"] = records_in.rows[p[i]]["distance"]

\* Both calls have returned, and print_results has moved another record
\* to the front of the caller's frame.
C10_Witness ==
    /\ Printed
    /\ places_df.index.name = "Name"
    /\ HasColumn(distances_df, "diff_mean")
    /\ Pair(distances_df.rows[1]) # Pair(records_in.rows[1])

===========================================================================
